---- MODULE Spec2Model ----
(***************************************************************************)
(* A model of the Shen-Castan edge detector of ShenCastan.ipynb.           *)
(*                                                                         *)
(*   Spec      locateZc's result (the adaptive gradient abstracted to a    *)
(*             chosen value), then threshold_edges / mark_connected run    *)
(*             one call, one return at a time, then shenCastan's           *)
(*             normalization loop.                                         *)
(*   FairSpec  Spec with weak fairness of its steps (the program is        *)
(*             single threaded and never waits), do_hysteresis = False.    *)
(*                                                                         *)
(* Grids are functions from <<row, col>> to a number.  Python indexing is  *)
(* kept: an index i of an axis of length n is valid when -n <= i < n, a    *)
(* negative index counts from the end, any other index raises IndexError   *)
(* and the run stops.                                                      *)
(***************************************************************************)
EXTENDS Integers, Sequences, FiniteSets, TLC

VARIABLES
    pc,             \* where the program is
    rows, columns,  \* img.shape
    outline,        \* global outline
    low_thresh,     \* global low_thresh
    high_thresh,    \* global high_thresh
    do_hysteresis,  \* global do_hysteresis
    thinFactor,     \* global thinFactor
    imgZC,          \* the candidate strength grid returned by locateZc
    edges,          \* global edges (the array threshold_edges returns)
    local_low,      \* threshold_edges' local variable low_thresh
    scan,           \* row-major index of the next pixel of the seed loop
    stack,          \* the active mark_connected calls, outermost first
    zc,             \* locateZc's arguments, window_size, result and last reads
    isef            \* getISEF's argument, s_factor, first_pass and result

config == <<rows, columns, outline, low_thresh, high_thresh, do_hysteresis,
           thinFactor>>
tracer == <<imgZC, edges, local_low, scan, stack>>
vars == <<pc, rows, columns, outline, low_thresh, high_thresh, do_hysteresis, thinFactor,
          imgZC, edges, local_low, scan, stack, zc, isef>>

----------------------------------------------------------------------------
(* Bounds of the model.                                                    *)

InnerRows == 2       \* rows of the grid outside the border margin
InnerColumns == 3    \* columns of the grid outside the border margin
MaxOutline == 1
MaxNonzero == 3      \* candidate pixels of a strength grid
MaxStrength == 2
MaxThresh == 1
MaxThinFactor == 2

----------------------------------------------------------------------------
(* Grids and Python indexing.                                              *)

Pixels(nr, nc) == (0 .. nr - 1) \X (0 .. nc - 1)

Zeros(nr, nc) == [p \in Pixels(nr, nc) |-> 0]

\* a[i] raises IndexError unless -n <= i < n
ValidIndex(i, n) == -n <= i /\ i < n

\* a[i] with i < 0 is a[n + i]
PyIndex(i, n) == IF i < 0 THEN i + n ELSE i

Cell(row, col, nr, nc) == <<PyIndex(row, nr), PyIndex(col, nc)>>

InGrid(row, col, nr, nc) ==
    0 <= row /\ row < nr /\ 0 <= col /\ col < nc

\* isEdge with > for >= on the far sides
isEdgeFarSideOff(row, col, nr, nc, ol) ==
    row < ol \/ row > nr - ol \/ col < ol \/ col > nc - ol

isEdge(row, col, nr, nc, ol) ==
    row < ol \/ row >= nr - ol \/ col < ol \/ col >= nc - ol

NonBorder(nr, nc, ol) ==
    {p \in Pixels(nr, nc) : ~isEdge(p[1], p[2], nr, nc, ol)}

----------------------------------------------------------------------------
(* mark_connected, piece by piece.                                         *)

\* the mark set on entry
MarkValue(strength, low) == IF strength > low THEN 1 ELSE 255

\* the 8 calls with the last one repeating (row-1, col)
NeighbourOffsetNoUpRight(k) ==
    CASE k = 1 -> <<0, 1>>
      [] k = 2 -> <<0, -1>>
      [] k = 3 -> <<1, 1>>
      [] k = 4 -> <<1, 0>>
      [] k = 5 -> <<1, -1>>
      [] k = 6 -> <<-1, -1>>
      [] k = 7 -> <<-1, 0>>
      [] k = 8 -> <<-1, 0>>

\* the k-th recursive call of mark_connected, k = 1 .. 8, as <<drow, dcol>>
NeighbourOffset(k) ==
    CASE k = 1 -> <<0, 1>>
      [] k = 2 -> <<0, -1>>
      [] k = 3 -> <<1, 1>>
      [] k = 4 -> <<1, 0>>
      [] k = 5 -> <<1, -1>>
      [] k = 6 -> <<-1, -1>>
      [] k = 7 -> <<-1, 0>>
      [] k = 8 -> <<-1, 1>>

\* the thinning test taken at chain ends
ThinnedAtChainEnd(notChainEnd, level, thin) ==
    notChainEnd = 0 /\ level > 0 /\ thin > 0 /\ level % thin # 0

\* the thinning test without the tests of thinFactor
ThinnedAlways(notChainEnd, level, thin) ==
    notChainEnd # 0 /\ level > 0

\* the condition under which the pixel is set to 255 after the 8 calls
Thinned(notChainEnd, level, thin) ==
    notChainEnd # 0 /\ level > 0 /\ thin > 0 /\ level % thin # 0

\* only a confirmed pixel counts as visited
VisitedIfConfirmed(e, cell) == e[cell] = 1

\* edges[row][col] != 0
Visited(e, cell) == e[cell] # 0

NewFrame(row, col, level) ==
    [row |-> row, col |-> col, level |-> level, next |-> 0, notChainEnd |-> 0]

----------------------------------------------------------------------------
(* Spec: locateZc's result, threshold_edges, shenCastan's normalization.   *)

Strengths == (-1 .. MaxStrength) \ {0}

Init ==
    /\ pc = "locateZc"
    /\ outline \in 0 .. MaxOutline
    /\ rows = InnerRows + 2 * outline
    /\ columns = InnerColumns + 2 * outline
    /\ low_thresh \in 0 .. MaxThresh
    /\ high_thresh \in low_thresh .. MaxThresh
    /\ do_hysteresis \in BOOLEAN
    /\ thinFactor \in 0 .. MaxThinFactor
    /\ imgZC = Zeros(rows, columns)
    /\ edges = Zeros(rows, columns)
    /\ local_low = "unbound"
    /\ scan = 0
    /\ stack = <<>>
    /\ zc = <<>>
    /\ isef = <<>>

\* locateZc: result starts as zeros, border pixels are skipped, every other
\* pixel gets adaptiveGradient(...) or 0.0.  The gradient is an input here.
LocateZc ==
    /\ pc = "locateZc"
    /\ \E S \in SUBSET NonBorder(rows, columns, outline) :
          /\ Cardinality(S) <= MaxNonzero
          /\ \E f \in [S -> Strengths] :
                imgZC' = [p \in Pixels(rows, columns) |->
                             IF p \in S THEN f[p] ELSE 0]
    /\ pc' = "threshold_edges"
    /\ UNCHANGED <<config, edges, local_low, scan, stack, zc, isef>>

\* threshold_edges up to its first loop: edges = zeros_like(img), and the
\* assignment low_thresh = high_thresh, which binds a local of threshold_edges
ThresholdEdgesEnter ==
    /\ pc = "threshold_edges"
    /\ edges' = Zeros(rows, columns)
    /\ local_low' = IF ~do_hysteresis THEN high_thresh ELSE local_low
    /\ scan' = 0
    /\ pc' = "seeds"
    /\ UNCHANGED <<config, imgZC, stack, zc, isef>>

ScanPixel(k) == <<k \div columns, k % columns>>

\* the seed loop calls mark_connected for the pixel of row-major index k
IsSeedFor(k, high) ==
    /\ ~isEdge(ScanPixel(k)[1], ScanPixel(k)[2], rows, columns, outline)
    /\ imgZC[ScanPixel(k)] > high

IsSeed(k) == IsSeedFor(k, high_thresh)

\* the seed loop runs on to the next pixel it calls mark_connected for
SeedCall ==
    /\ pc = "seeds"
    /\ \E k \in scan .. rows * columns - 1 :
          /\ IsSeed(k)
          /\ \A j \in scan .. k - 1 : ~IsSeed(j)
          /\ stack' = <<NewFrame(ScanPixel(k)[1], ScanPixel(k)[2], 0)>>
          /\ scan' = k + 1
    /\ pc' = "mark_connected"
    /\ UNCHANGED <<config, imgZC, edges, local_low, zc, isef>>

\* the seed loop runs out of pixels
SeedsDone ==
    /\ pc = "seeds"
    /\ \A k \in scan .. rows * columns - 1 : ~IsSeed(k)
    /\ scan' = rows * columns
    /\ pc' = "final_scan"
    /\ UNCHANGED <<config, imgZC, edges, local_low, stack, zc, isef>>

Top == stack[Len(stack)]

\* the innermost call returns ret: the caller ORs it into notChainEnd; the
\* seed loop drops it
ReturnTo(ret) ==
    IF Len(stack) = 1
    THEN /\ stack' = <<>>
         /\ pc' = "seeds"
    ELSE /\ stack' = [SubSeq(stack, 1, Len(stack) - 1) EXCEPT
                         ![Len(stack) - 1].notChainEnd =
                             IF @ # 0 \/ ret # 0 THEN 1 ELSE 0]
         /\ pc' = "mark_connected"

\* edges[row][col] with an index out of range
MarkIndexError ==
    /\ pc = "mark_connected" /\ Top.next = 0
    /\ ~(ValidIndex(Top.row, rows) /\ ValidIndex(Top.col, columns))
    /\ pc' = "IndexError"
    /\ UNCHANGED <<config, tracer, zc, isef>>

\* if edges[row][col] != 0: return 0
MarkVisited ==
    /\ pc = "mark_connected" /\ Top.next = 0
    /\ ValidIndex(Top.row, rows) /\ ValidIndex(Top.col, columns)
    /\ Visited(edges, Cell(Top.row, Top.col, rows, columns))
    /\ ReturnTo(0)
    /\ UNCHANGED <<config, imgZC, edges, local_low, scan, zc, isef>>

\* if img[row][col] == 0.0: return 0
MarkNoCandidate ==
    /\ pc = "mark_connected" /\ Top.next = 0
    /\ ValidIndex(Top.row, rows) /\ ValidIndex(Top.col, columns)
    /\ ~Visited(edges, Cell(Top.row, Top.col, rows, columns))
    /\ imgZC[Cell(Top.row, Top.col, rows, columns)] = 0
    /\ ReturnTo(0)
    /\ UNCHANGED <<config, imgZC, edges, local_low, scan, zc, isef>>

\* edges[row][col] = 1 or 255; notChainEnd = 0
MarkPixel ==
    /\ pc = "mark_connected" /\ Top.next = 0
    /\ ValidIndex(Top.row, rows) /\ ValidIndex(Top.col, columns)
    /\ ~Visited(edges, Cell(Top.row, Top.col, rows, columns))
    /\ imgZC[Cell(Top.row, Top.col, rows, columns)] # 0
    /\ edges' = [edges EXCEPT ![Cell(Top.row, Top.col, rows, columns)] =
                     MarkValue(imgZC[Cell(Top.row, Top.col, rows, columns)],
                               low_thresh)]
    /\ stack' = [stack EXCEPT ![Len(stack)].next = 1]
    /\ UNCHANGED <<pc, config, imgZC, local_low, scan, zc, isef>>

\* the next of the 8 calls mark_connected(row + dr, col + dc, level + 1, img)
MarkRecurse ==
    /\ pc = "mark_connected" /\ Top.next \in 1 .. 8
    /\ stack' = Append([stack EXCEPT ![Len(stack)].next = @ + 1],
                       NewFrame(Top.row + NeighbourOffset(Top.next)[1],
                                Top.col + NeighbourOffset(Top.next)[2],
                                Top.level + 1))
    /\ UNCHANGED <<pc, config, imgZC, edges, local_low, scan, zc, isef>>

\* after the 8 calls: the thinning test, then return 1
MarkReturn ==
    /\ pc = "mark_connected" /\ Top.next = 9
    /\ edges' = IF Thinned(Top.notChainEnd, Top.level, thinFactor)
                THEN [edges EXCEPT
                        ![Cell(Top.row, Top.col, rows, columns)] = 255]
                ELSE edges
    /\ ReturnTo(1)
    /\ UNCHANGED <<config, imgZC, local_low, scan, zc, isef>>

\* the last loop of threshold_edges: every 255 becomes 0
FinalScan ==
    /\ pc = "final_scan"
    /\ edges' = [p \in Pixels(rows, columns) |->
                    IF edges[p] = 255 THEN 0 ELSE edges[p]]
    /\ pc' = "normalize"
    /\ UNCHANGED <<config, imgZC, local_low, scan, stack, zc, isef>>

\* the loop with >= for >
NormalizeFromZero ==
    /\ pc = "normalize"
    /\ edges' = [p \in Pixels(rows, columns) |->
                    IF edges[p] >= 0 THEN 255 ELSE 0]
    /\ pc' = "returned"
    /\ UNCHANGED <<config, imgZC, local_low, scan, stack, zc, isef>>

\* shenCastan's loop over the returned array
Normalize ==
    /\ pc = "normalize"
    /\ edges' = [p \in Pixels(rows, columns) |->
                    IF edges[p] > 0 THEN 255 ELSE 0]
    /\ pc' = "returned"
    /\ UNCHANGED <<config, imgZC, local_low, scan, stack, zc, isef>>

Next ==
    \/ LocateZc
    \/ ThresholdEdgesEnter
    \/ SeedCall
    \/ SeedsDone
    \/ MarkIndexError
    \/ MarkVisited
    \/ MarkNoCandidate
    \/ MarkPixel
    \/ MarkRecurse
    \/ MarkReturn
    \/ FinalScan
    \/ Normalize

Spec == Init /\ [][Next]_vars

\* do_hysteresis as the notebook sets it (False); the flag's only effect is
\* the assignment to threshold_edges' local low_thresh, which no step reads
InitFair == Init /\ ~do_hysteresis

\* the program is sequential and never waits, so a step that can be taken
\* is taken
FairSpec == InitFair /\ [][Next]_vars /\ WF_vars(Next)

----------------------------------------------------------------------------
(* threshold_edges as a function of the globals, for comparing two runs.   *)
(* g holds the globals low_thresh, high_thresh, do_hysteresis, thinFactor  *)
(* of the run; img.shape and outline are those of the state.  A result is  *)
(* [edges, ok], ok = FALSE when the run raised IndexError.                 *)

RECURSIVE mark_connected(_, _, _, _, _), MarkNeighbours(_, _, _, _, _, _, _)

\* mark_connected(row, col, level, img) on the edges array e:
\* [edges, ret, ok]
mark_connected(g, e, row, col, level) ==
    IF ~(ValidIndex(row, rows) /\ ValidIndex(col, columns))
    THEN [edges |-> e, ret |-> 0, ok |-> FALSE]
    ELSE IF Visited(e, Cell(row, col, rows, columns))
    THEN [edges |-> e, ret |-> 0, ok |-> TRUE]
    ELSE IF imgZC[Cell(row, col, rows, columns)] = 0
    THEN [edges |-> e, ret |-> 0, ok |-> TRUE]
    ELSE LET marked == [e EXCEPT ![Cell(row, col, rows, columns)] =
                           MarkValue(imgZC[Cell(row, col, rows, columns)],
                                     g.low_thresh)]
             after == MarkNeighbours(g, marked, row, col, level, 1, 0)
         IN  IF ~after.ok
             THEN [edges |-> after.edges, ret |-> 0, ok |-> FALSE]
             ELSE [edges |-> IF Thinned(after.notChainEnd, level, g.thinFactor)
                             THEN [after.edges EXCEPT
                                     ![Cell(row, col, rows, columns)] = 255]
                             ELSE after.edges,
                   ret |-> 1, ok |-> TRUE]

\* the calls k .. 8 of the pixel at (row, col): [edges, notChainEnd, ok]
MarkNeighbours(g, e, row, col, level, k, notChainEnd) ==
    IF k > 8
    THEN [edges |-> e, notChainEnd |-> notChainEnd, ok |-> TRUE]
    ELSE LET r == mark_connected(g, e, row + NeighbourOffset(k)[1],
                                 col + NeighbourOffset(k)[2], level + 1)
         IN  IF ~r.ok
             THEN [edges |-> r.edges, notChainEnd |-> notChainEnd, ok |-> FALSE]
             ELSE MarkNeighbours(g, r.edges, row, col, level, k + 1,
                                 IF notChainEnd # 0 \/ r.ret # 0 THEN 1 ELSE 0)

RECURSIVE SeedLoop(_, _, _)

\* the seed loop of threshold_edges from row-major index k on
SeedLoop(g, e, k) ==
    IF k >= rows * columns
    THEN [edges |-> e, ok |-> TRUE]
    ELSE IF IsSeedFor(k, g.high_thresh)
    THEN LET r == mark_connected(g, e, ScanPixel(k)[1], ScanPixel(k)[2], 0)
         IN  IF r.ok THEN SeedLoop(g, r.edges, k + 1)
                     ELSE [edges |-> r.edges, ok |-> FALSE]
    ELSE SeedLoop(g, e, k + 1)

\* threshold_edges(imgZC) under the globals g.  The assignment
\* low_thresh = high_thresh binds a local that mark_connected never reads.
threshold_edges(g) ==
    LET local_low_thresh ==
            IF ~g.do_hysteresis THEN g.high_thresh ELSE "unbound"
        traced == SeedLoop(g, Zeros(rows, columns), 0)
    IN  IF ~traced.ok
        THEN traced
        ELSE [edges |-> [p \in Pixels(rows, columns) |->
                            IF traced.edges[p] = 255 THEN 0
                            ELSE traced.edges[p]],
              ok |-> TRUE]

Globals ==
    [low_thresh |-> low_thresh, high_thresh |-> high_thresh,
     do_hysteresis |-> do_hysteresis, thinFactor |-> thinFactor]

\* the stepwise run and the function agree
StepsAgree ==
    /\ pc = "normalize" =>
          threshold_edges(Globals) = [edges |-> edges, ok |-> TRUE]
    /\ pc = "IndexError" => ~threshold_edges(Globals).ok

----------------------------------------------------------------------------
(* SpecIsef: getISEF and getBLI on an intensity grid.                      *)
(*                                                                         *)
(* s_factor is the fraction SNum / SDen.  The floats are kept as exact     *)
(* integers: the arrays of the first pass hold their value times Scale of  *)
(* the rows, those of the second pass times both Scales, which makes every *)
(* division below exact.                                                   *)

IsefRows == 3
IsefColumns == 3
MaxIntensity == 1
SNum == 1
SDen == 2

RECURSIVE Power(_, _)

Power(x, n) == IF n = 0 THEN 1 ELSE x * Power(x, n - 1)

\* the factor that makes a pass along a line of length n exact
Scale(n) == (SDen + SNum) * Power(SDen, n)

\* b1 = (1 - s_factor) / (1 + s_factor), times Scale(n)
B1(n) == (SDen - SNum) * Power(SDen, n)

\* b2 = s_factor * b1, times Scale(n)
B2(n) == SNum * (SDen - SNum) * Power(SDen, n - 1)

\* s_factor * x
TimesS(x) == (SNum * x) \div SDen

\* casual after the loops of the first pass (the recurrence runs down the
\* rows of each column)
Casual1(img) ==
    LET c[p \in Pixels(rows, columns)] ==
            IF p[1] = 0
            THEN B1(rows) * img[p]
            ELSE B1(rows) * img[p] + TimesS(c[<<p[1] - 1, p[2]>>])
    IN  c

\* anti_casual after the loops of the first pass
AntiCasual1(img) ==
    LET a[p \in Pixels(rows, columns)] ==
            IF p[1] = rows - 1
            THEN B2(rows) * img[p]
            ELSE B2(rows) * img[p] + TimesS(a[<<p[1] + 1, p[2]>>])
    IN  a

\* first_pass: zeros, then the boundary loop over range(columns-1) and the
\* sum loop over range(rows-2) x range(columns-1)
FirstPass(img) ==
    [p \in Pixels(rows, columns) |->
        IF p[1] = rows - 1 /\ p[2] < columns - 1
        THEN Casual1(img)[p]
        ELSE IF p[1] < rows - 2 /\ p[2] < columns - 1
        THEN Casual1(img)[p] + AntiCasual1(img)[<<p[1] + 1, p[2]>>]
        ELSE 0]

\* casual after the loops of the second pass (along the columns of each row)
Casual2(first_pass) ==
    LET c[p \in Pixels(rows, columns)] ==
            IF p[2] = 0
            THEN B1(columns) * first_pass[p]
            ELSE B1(columns) * first_pass[p] + TimesS(c[<<p[1], p[2] - 1>>])
    IN  c

\* anti_casual after the loops of the second pass
AntiCasual2(first_pass) ==
    LET a[p \in Pixels(rows, columns)] ==
            IF p[2] = columns - 1
            THEN B2(columns) * first_pass[p]
            ELSE B2(columns) * first_pass[p] + TimesS(a[<<p[1], p[2] + 1>>])
    IN  a

\* result: the boundary loop over range(rows) and the sum loop over
\* range(rows) x range(columns-1)
SecondPass(first_pass) ==
    [p \in Pixels(rows, columns) |->
        IF p[2] = columns - 1
        THEN Casual2(first_pass)[p]
        ELSE Casual2(first_pass)[p] + AntiCasual2(first_pass)[<<p[1], p[2] + 1>>]]

\* getBLI: float((imgISEF - img) > 0.0), img brought to imgISEF's scale
getBLI(img, imgISEF) ==
    [p \in Pixels(rows, columns) |->
        IF imgISEF[p] - Scale(rows) * Scale(columns) * img[p] > 0
        THEN 1 ELSE 0]

\* the variables of threshold_edges, which these specifications leave alone
TracerIdle ==
    /\ low_thresh = 0 /\ high_thresh = 0
    /\ do_hysteresis = FALSE /\ thinFactor = 0
    /\ imgZC = <<>> /\ edges = <<>> /\ local_low = "unbound"
    /\ scan = 0 /\ stack = <<>>

InitIsef ==
    /\ pc = "getISEF"
    /\ rows = IsefRows /\ columns = IsefColumns
    /\ outline = 0
    /\ TracerIdle
    /\ zc = <<>>
    /\ \E img \in [Pixels(IsefRows, IsefColumns) -> 0 .. MaxIntensity] :
          isef = [img |-> img,
                  first_pass |-> Zeros(IsefRows, IsefColumns),
                  result |-> Zeros(IsefRows, IsefColumns),
                  imgBLI |-> Zeros(IsefRows, IsefColumns)]

\* getISEF, "First compute for rows"
IsefFirstPass ==
    /\ pc = "getISEF"
    /\ isef' = [isef EXCEPT !.first_pass = FirstPass(isef.img)]
    /\ pc' = "second_pass"
    /\ UNCHANGED <<config, tracer, zc>>

\* getISEF, "Second compute for columns"
IsefSecondPass ==
    /\ pc = "second_pass"
    /\ isef' = [isef EXCEPT !.result = SecondPass(isef.first_pass)]
    /\ pc' = "getBLI"
    /\ UNCHANGED <<config, tracer, zc>>

IsefGetBLI ==
    /\ pc = "getBLI"
    /\ isef' = [isef EXCEPT !.imgBLI = getBLI(isef.img, isef.result)]
    /\ pc' = "locateZc"
    /\ UNCHANGED <<config, tracer, zc>>

NextIsef ==
    \/ IsefFirstPass
    \/ IsefSecondPass
    \/ IsefGetBLI

SpecIsef == InitIsef /\ [][NextIsef]_vars

----------------------------------------------------------------------------
(* SpecZc: locateZc, isEdgeCandidate and adaptiveGradient, one pixel of    *)
(* locateZc's loop at a time, on a Binary Laplacian grid and a Smoothed    *)
(* grid.  An operator returns [value, reads, ok]: what it returns, the     *)
(* <<row, col>> indexes it used in order, and ok = FALSE when the last of  *)
(* them raised IndexError.  A strength is the fraction <<num, den>>.       *)

ZcRows == 3
ZcColumns == 3
MaxHalfWindow == 2   \* window_size is 2, 4, .. 2 * MaxHalfWindow
MaxSlope == 1        \* the Smoothed grid is a ramp of slopes -MaxSlope .. MaxSlope

At(grid, ix) == grid[Cell(ix[1], ix[2], rows, columns)]

ValidAt(ix) == ValidIndex(ix[1], rows) /\ ValidIndex(ix[2], columns)

\* imgISEF[a] - imgISEF[b] > 0.0
Rising(imgISEF, a, b) == At(imgISEF, a) - At(imgISEF, b) > 0

\* the test of the positive branches in a negative branch
FallingAsRising(imgISEF, a, b) == At(imgISEF, a) - At(imgISEF, b) > 0

\* imgISEF[a] - imgISEF[b] < 0.0
Falling(imgISEF, a, b) == At(imgISEF, a) - At(imgISEF, b) < 0

\* the four branches in their order; `and' reads its right side only when
\* its left side holds, and a branch that is taken returns
isEdgeCandidate(imgBLI, imgISEF, row, col) ==
    LET here == <<row, col>>
        down == <<row + 1, col>>
        up == <<row - 1, col>>
        right == <<row, col + 1>>
        left == <<row, col - 1>>
        Raise(reads) == [value |-> FALSE, reads |-> reads, ok |-> FALSE]
        Return(v, reads) == [value |-> v, reads |-> reads, ok |-> TRUE]
    IN  IF At(imgBLI, here) # 1
        THEN Return(FALSE, <<here>>)
        ELSE IF ~ValidAt(down)
        THEN Raise(<<here, down>>)
        ELSE IF At(imgBLI, down) = 0
        THEN Return(Rising(imgISEF, down, up),
                    <<here, down, down, up>>)
        ELSE IF ~ValidAt(right)
        THEN Raise(<<here, down, here, right>>)
        ELSE IF At(imgBLI, right) = 0
        THEN Return(Rising(imgISEF, right, left),
                    <<here, down, here, right, right, left>>)
        ELSE IF At(imgBLI, up) = 0
        THEN Return(Falling(imgISEF, down, up),
                    <<here, down, here, right, here, up, down, up>>)
        ELSE IF At(imgBLI, left) = 0
        THEN Return(Falling(imgISEF, right, left),
                    <<here, down, here, right, here, up, here, left,
                      right, left>>)
        ELSE Return(FALSE,
                    <<here, down, here, right, here, up, here, left>>)

\* the offsets <<i, j>> of adaptiveGradient's two loops, in loop order
WindowOffsets(window_size) ==
    [k \in 1 .. window_size * window_size |->
        <<((k - 1) \div window_size) - (window_size \div 2),
          ((k - 1) % window_size) - (window_size \div 2)>>]

RECURSIVE SumOver(_, _, _)

\* the sum of f[k] over the k in 1 .. n that are in K
SumOver(f, K, n) ==
    IF n = 0 THEN 0
    ELSE SumOver(f, K, n - 1) + (IF n \in K THEN f[n] ELSE 0)

adaptiveGradient(imgBLI, imgISEF, row, col, window_size) ==
    LET off == WindowOffsets(window_size)
        ix == [k \in DOMAIN off |-> <<row + off[k][1], col + off[k][2]>>]
        bad == {k \in DOMAIN ix : ~ValidAt(ix[k])}
        first_bad == CHOOSE k \in bad : \A j \in bad : k <= j
        on == {k \in DOMAIN ix : At(imgBLI, ix[k]) > 0}
        smooth == [k \in DOMAIN ix |-> At(imgISEF, ix[k])]
        sum_on == SumOver(smooth, on, Len(ix))
        sum_off == SumOver(smooth, DOMAIN ix \ on, Len(ix))
        num_on == Cardinality(on)
        num_off == Cardinality(DOMAIN ix \ on)
        avg_off == IF sum_off > 0 THEN <<sum_off, num_off>> ELSE <<0, 1>>
        avg_on == IF sum_on > 0 THEN <<sum_on, num_on>> ELSE <<0, 1>>
    IN  IF bad # {}
        THEN [value |-> <<0, 1>>, reads |-> SubSeq(ix, 1, first_bad),
              ok |-> FALSE]
        ELSE [value |-> <<avg_off[1] * avg_on[2] - avg_on[1] * avg_off[2],
                          avg_off[2] * avg_on[2]>>,
              reads |-> ix, ok |-> TRUE]

\* a Smoothed grid that rises by dr per row and dc per column
Ramp(dr, dc) ==
    [p \in Pixels(ZcRows, ZcColumns) |->
        MaxSlope * (ZcRows + ZcColumns) + dr * p[1] + dc * p[2]]

InitZc ==
    /\ pc = "locateZc"
    /\ rows = ZcRows /\ columns = ZcColumns
    /\ outline \in {ol \in 0 .. MaxOutline :
                       2 * ol < ZcRows /\ 2 * ol < ZcColumns}
    /\ TracerIdle
    /\ isef = <<>>
    /\ \E imgBLI \in [Pixels(ZcRows, ZcColumns) -> {0, 1}],
          dr, dc \in -MaxSlope .. MaxSlope, half \in 1 .. MaxHalfWindow :
          zc = [imgBLI |-> imgBLI, imgISEF |-> Ramp(dr, dc),
                window_size |-> 2 * half,
                result |-> [p \in Pixels(ZcRows, ZcColumns) |-> <<0, 1>>],
                reads |-> <<>>]

ZcRow == scan \div columns
ZcCol == scan % columns

ZcAtPixel == pc = "locateZc" /\ scan < rows * columns

ZcCandidate ==
    isEdgeCandidate(zc.imgBLI, zc.imgISEF, ZcRow, ZcCol)

ZcGradient ==
    adaptiveGradient(zc.imgBLI, zc.imgISEF, ZcRow, ZcCol, zc.window_size)

\* if isEdge (row, col, rows, columns): continue
ZcSkipBorder ==
    /\ ZcAtPixel
    /\ isEdge(ZcRow, ZcCol, rows, columns, outline)
    /\ zc' = [zc EXCEPT !.reads = <<>>]
    /\ scan' = scan + 1
    /\ UNCHANGED <<pc, config, imgZC, edges, local_low, stack, isef>>

\* isEdgeCandidate is false: result[row][col] = 0.0
ZcNoCandidate ==
    /\ ZcAtPixel
    /\ ~isEdge(ZcRow, ZcCol, rows, columns, outline)
    /\ ZcCandidate.ok /\ ~ZcCandidate.value
    /\ zc' = [zc EXCEPT !.reads = ZcCandidate.reads,
                        !.result[<<ZcRow, ZcCol>>] = <<0, 1>>]
    /\ scan' = scan + 1
    /\ UNCHANGED <<pc, config, imgZC, edges, local_low, stack, isef>>

\* isEdgeCandidate is true: result[row][col] = adaptiveGradient(...)
ZcStrength ==
    /\ ZcAtPixel
    /\ ~isEdge(ZcRow, ZcCol, rows, columns, outline)
    /\ ZcCandidate.ok /\ ZcCandidate.value
    /\ ZcGradient.ok
    /\ zc' = [zc EXCEPT !.reads = ZcCandidate.reads \o ZcGradient.reads,
                        !.result[<<ZcRow, ZcCol>>] = ZcGradient.value]
    /\ scan' = scan + 1
    /\ UNCHANGED <<pc, config, imgZC, edges, local_low, stack, isef>>

\* an index out of range in isEdgeCandidate
ZcCandidateIndexError ==
    /\ ZcAtPixel
    /\ ~isEdge(ZcRow, ZcCol, rows, columns, outline)
    /\ ~ZcCandidate.ok
    /\ zc' = [zc EXCEPT !.reads = ZcCandidate.reads]
    /\ pc' = "IndexError"
    /\ UNCHANGED <<config, tracer, isef>>

\* an index out of range in adaptiveGradient
ZcGradientIndexError ==
    /\ ZcAtPixel
    /\ ~isEdge(ZcRow, ZcCol, rows, columns, outline)
    /\ ZcCandidate.ok /\ ZcCandidate.value
    /\ ~ZcGradient.ok
    /\ zc' = [zc EXCEPT !.reads = ZcCandidate.reads \o ZcGradient.reads]
    /\ pc' = "IndexError"
    /\ UNCHANGED <<config, tracer, isef>>

\* return result
ZcReturn ==
    /\ pc = "locateZc" /\ scan = rows * columns
    /\ zc' = [zc EXCEPT !.reads = <<>>]
    /\ pc' = "threshold_edges"
    /\ UNCHANGED <<config, tracer, isef>>

NextZc ==
    \/ ZcSkipBorder
    \/ ZcNoCandidate
    \/ ZcStrength
    \/ ZcCandidateIndexError
    \/ ZcGradientIndexError
    \/ ZcReturn

SpecZc == InitZc /\ [][NextZc]_vars

----------------------------------------------------------------------------
(* The vocabulary of the claims.                                           *)

\* the border margin, in the words of the claims
InMargin(p) ==
    \/ p[1] < outline \/ p[1] >= rows - outline
    \/ p[2] < outline \/ p[2] >= columns - outline

Abs(x) == IF x < 0 THEN -x ELSE x

Adjacent(p, q) == p # q /\ Abs(p[1] - q[1]) <= 1 /\ Abs(p[2] - q[2]) <= 1

RECURSIVE Closure(_)

\* the pixels joined to a pixel of S by 8-adjacent pixels of nonzero strength
Closure(S) ==
    LET more == {q \in Pixels(rows, columns) :
                    imgZC[q] # 0 /\ \E p \in S : Adjacent(p, q)}
    IN  IF more \subseteq S THEN S ELSE Closure(S \cup more)

\* the 8-connected region of nonzero strength that holds pixel p
Region(p) == IF imgZC[p] = 0 THEN {} ELSE Closure({p})

Confirmed(e) == Cardinality({p \in Pixels(rows, columns) : e[p] = 1})

\* the mark_connected call at the top of the stack has made its 8 calls
AtThinningTest ==
    pc = "mark_connected" /\ Len(stack) > 0 /\ Top.next = 9

TopCell == Cell(Top.row, Top.col, rows, columns)

----------------------------------------------------------------------------
(* Claims about threshold_edges, mark_connected and shenCastan (Spec).     *)

\* C1: with outline >= 1 every pixel of the border margin has strength 0 in
\* locateZc's result and is 0 in the edges array in every state of the run,
\* the returned grid included.
C1_BorderStaysZero ==
    outline >= 1 =>
        \A p \in Pixels(rows, columns) :
            InMargin(p) => imgZC[p] = 0 /\ edges[p] = 0

\* shenCastan has returned a grid with edge pixels, and there is a margin
C1_Witness ==
    /\ pc = "returned" /\ outline >= 1
    /\ \E p \in Pixels(rows, columns) : edges[p] = 255

\* C2: with do_hysteresis = False and high_thresh = T, threshold_edges
\* returns what it returns when low_thresh = high_thresh = T.
C2_HysteresisOffUsesHigh ==
    (pc = "normalize" /\ ~do_hysteresis) =>
        edges = threshold_edges([Globals EXCEPT
                                   !.low_thresh = high_thresh]).edges

\* C3: for high_thresh <= high2, all else fixed (thinFactor > 0 included),
\* the run with high2 confirms no more pixels than the run with high_thresh.
C3_MonotoneInHigh ==
    pc = "normalize" =>
        \A high2 \in high_thresh .. MaxThresh :
            LET r == threshold_edges([Globals EXCEPT !.high_thresh = high2])
            IN  r.ok => Confirmed(r.edges) <= Confirmed(edges)

\* C3 as amended: the same with thinFactor = 0.
C3_MonotoneInHighUnthinned ==
    (pc = "normalize" /\ thinFactor = 0) =>
        \A high2 \in high_thresh .. MaxThresh :
            LET r == threshold_edges([Globals EXCEPT !.high_thresh = high2])
            IN  r.ok => Confirmed(r.edges) <= Confirmed(edges)

\* without thinning, a higher threshold confirms fewer pixels, but some
C3_Witness ==
    /\ pc = "normalize" /\ thinFactor = 0
    /\ \E high2 \in high_thresh + 1 .. MaxThresh :
          LET r == threshold_edges([Globals EXCEPT !.high_thresh = high2])
          IN  r.ok /\ 0 < Confirmed(r.edges)
                   /\ Confirmed(r.edges) < Confirmed(edges)

\* C4: while threshold_edges and mark_connected run every cell of edges is
\* 0, 1 or 255; after the final scan no cell is 255; the normalization loop
\* puts 255 exactly on the cells that held 1 and 0 on the others.
C4_EdgeValues ==
    /\ [](\A p \in Pixels(rows, columns) :
             /\ edges[p] \in {0, 1, 255}
             /\ pc = "normalize" => edges[p] # 255
             /\ pc = "returned" => edges[p] # 1)
    /\ [][pc = "normalize" =>
             \A p \in Pixels(rows, columns) :
                 /\ edges[p] = 1 => edges'[p] = 255
                 /\ edges[p] # 1 => edges'[p] = 0]_vars

\* shenCastan has returned, and tracing had left provisional marks
C4_Witness ==
    /\ pc = "returned"
    /\ \E p \in Pixels(rows, columns) : edges[p] = 255
    /\ \E p \in Pixels(rows, columns) : imgZC[p] # 0 /\ edges[p] = 0

\* C5: after its 8 calls a pixel is set to 255 exactly when every call
\* returned 0 (notChainEnd = 0), level > 0, thinFactor > 0 and
\* level mod thinFactor # 0; otherwise it keeps the mark set on entry.
C5_ThinsChainEnds ==
    [][AtThinningTest =>
         edges'[TopCell] =
             IF /\ Top.notChainEnd = 0 /\ Top.level > 0 /\ thinFactor > 0
                /\ Top.level % thinFactor # 0
             THEN 255
             ELSE IF imgZC[TopCell] > low_thresh THEN 1 ELSE 255]_vars

\* C5 as amended: the pixel is set to 255 exactly when at least one of the
\* 8 calls returned 1 (notChainEnd = 1), level > 0, thinFactor > 0 and
\* level mod thinFactor # 0; otherwise it keeps the mark set on entry.
C5_ThinsInteriorPixels ==
    [][AtThinningTest =>
         edges'[TopCell] =
             IF /\ Top.notChainEnd = 1 /\ Top.level > 0 /\ thinFactor > 0
                /\ Top.level % thinFactor # 0
             THEN 255
             ELSE IF imgZC[TopCell] > low_thresh THEN 1 ELSE 255]_vars

\* a pixel above the low threshold has been set back to 255 by thinning
C5_Witness ==
    /\ pc \in {"mark_connected", "seeds"} /\ thinFactor > 0
    /\ \E p \in Pixels(rows, columns) :
          imgZC[p] > low_thresh /\ edges[p] = 255

\* C9: with outline >= 1 threshold_edges terminates; a nonzero cell stays
\* nonzero until the final scan; a call on a nonzero cell returns at once,
\* changing nothing; and the depth of a call (its level, 0 for the seed) is
\* at most the number of pixels of the seed's region.
C9_Terminates ==
    /\ (outline >= 1) ~> (pc = "returned")
    /\ [][(outline >= 1 /\ pc \in {"seeds", "mark_connected"}) =>
             /\ \A p \in Pixels(rows, columns) :
                    edges[p] # 0 => edges'[p] # 0
             /\ (Len(stack) > 0 /\ Top.next = 0 /\ edges[TopCell] # 0) =>
                    /\ edges' = edges
                    /\ Len(stack') = Len(stack) - 1]_vars
    /\ [](outline >= 1 =>
             \A i \in 1 .. Len(stack) :
                 /\ stack[i].level = i - 1
                 /\ stack[i].level <=
                        Cardinality(Region(<<stack[1].row, stack[1].col>>)))

\* a call as deep as the seed's region is large, on a visited pixel
C9_Witness ==
    /\ outline >= 1 /\ pc = "mark_connected" /\ Len(stack) > 0
    /\ Top.level = Cardinality(Region(<<stack[1].row, stack[1].col>>))
    /\ Top.level >= 3
    /\ Top.next = 0 /\ edges[TopCell] # 0

\* C10: with thinFactor = 0 and outline >= 1 a cell is 1 after
\* threshold_edges exactly when its strength is above low_thresh and its
\* region holds a pixel outside the margin with strength above high_thresh.
C10_ConfirmedIffConnected ==
    (pc = "normalize" /\ thinFactor = 0 /\ outline >= 1) =>
        \A p \in Pixels(rows, columns) :
            edges[p] = 1 <=>
                /\ imgZC[p] > low_thresh
                /\ \E q \in Region(p) :
                      ~InMargin(q) /\ imgZC[q] > high_thresh

\* a pixel confirmed through a seed of its region though it is no seed
\* itself, and a pixel above the low threshold whose region has no seed
C10_Witness ==
    /\ pc = "normalize" /\ thinFactor = 0 /\ outline >= 1
    /\ \E p, q \in Pixels(rows, columns) :
          /\ edges[p] = 1 /\ imgZC[p] <= high_thresh
          /\ imgZC[q] > low_thresh /\ edges[q] = 0

----------------------------------------------------------------------------
(* Claims about getISEF (SpecIsef).                                        *)

\* the rule of the claim along the lines of the first pass: index i of a
\* line is the row, the line is a column
FirstPassRule(img) ==
    [p \in Pixels(rows, columns) |->
        IF p[1] = rows - 1
        THEN Casual1(img)[p]
        ELSE Casual1(img)[p] + AntiCasual1(img)[<<p[1] + 1, p[2]>>]]

\* the rule of the claim along the lines of the second pass: index i is the
\* column, the line is a row
SecondPassRule(first_pass) ==
    [p \in Pixels(rows, columns) |->
        IF p[2] = columns - 1
        THEN Casual2(first_pass)[p]
        ELSE Casual2(first_pass)[p]
                 + AntiCasual2(first_pass)[<<p[1], p[2] + 1>>]]

\* C6: in each pass every line's output is causal[i] + anticausal[i+1] at
\* i = 0 .. n-2 and causal[n-1] at n-1, so no cell of the intermediate grid
\* or of the Smoothed Grid keeps its initial zero.
C6_EveryCellByTheRule ==
    /\ pc \in {"second_pass", "getBLI"} =>
          isef.first_pass = FirstPassRule(isef.img)
    /\ pc = "getBLI" =>
          isef.result = SecondPassRule(isef.first_pass)

----------------------------------------------------------------------------
(* Claims about locateZc (SpecZc).                                         *)

\* C7: for every permitted configuration every index that locateZc,
\* isEdgeCandidate and adaptiveGradient use has 0 <= row < rows and
\* 0 <= col < columns.
C7_ReadsInsideGrid ==
    \A k \in DOMAIN zc.reads :
        InGrid(zc.reads[k][1], zc.reads[k][2], rows, columns)

\* the Binary Laplacian transition of the k-th directional pattern at p
Transition(k, p) ==
    /\ At(zc.imgBLI, p) = 1
    /\ CASE k = 1 -> At(zc.imgBLI, <<p[1] + 1, p[2]>>) = 0
         [] k = 2 -> At(zc.imgBLI, <<p[1], p[2] + 1>>) = 0
         [] k = 3 -> At(zc.imgBLI, <<p[1] - 1, p[2]>>) = 0
         [] k = 4 -> At(zc.imgBLI, <<p[1], p[2] - 1>>) = 0

\* the sign condition on the Smoothed difference of the k-th pattern at p
SignCondition(k, p) ==
    LET rowDiff == At(zc.imgISEF, <<p[1] + 1, p[2]>>)
                     - At(zc.imgISEF, <<p[1] - 1, p[2]>>)
        colDiff == At(zc.imgISEF, <<p[1], p[2] + 1>>)
                     - At(zc.imgISEF, <<p[1], p[2] - 1>>)
    IN  CASE k = 1 -> rowDiff > 0
          [] k = 2 -> colDiff > 0
          [] k = 3 -> rowDiff < 0
          [] k = 4 -> colDiff < 0

\* the pixels locateZc has tested whose four neighbours are valid indexes
Tested ==
    {p \in NonBorder(rows, columns, outline) :
        /\ p[1] * columns + p[2] < scan
        /\ ValidAt(<<p[1] + 1, p[2]>>) /\ ValidAt(<<p[1], p[2] + 1>>)}

\* the tested pixels whose four neighbours are pixels of the grid
TestedInside ==
    {p \in Tested : InGrid(p[1] - 1, p[2] - 1, rows, columns)}

\* C8: isEdgeCandidate is true exactly when at least one of the four
\* patterns holds in full, whatever the order of the tests.
C8_AnyPatternInFull ==
    \A p \in TestedInside :
        isEdgeCandidate(zc.imgBLI, zc.imgISEF, p[1], p[2]).value
            <=> \E k \in 1 .. 4 : Transition(k, p) /\ SignCondition(k, p)

\* C8 as amended: isEdgeCandidate is true exactly when some transition
\* holds and the first one in the order of the tests has its sign
\* condition; then a pattern holds in full, but not the other way round.
C8_FirstTransitionDecides ==
    \A p \in Tested :
        LET fired == {k \in 1 .. 4 : Transition(k, p)}
            value == isEdgeCandidate(zc.imgBLI, zc.imgISEF, p[1], p[2]).value
        IN  /\ value <=>
                  /\ fired # {}
                  /\ SignCondition(CHOOSE k \in fired :
                                      \A j \in fired : k <= j, p)
            /\ value => \E k \in 1 .. 4 :
                            Transition(k, p) /\ SignCondition(k, p)

\* a tested pixel where a later pattern holds in full and the first
\* transition lacks its sign condition, and one that is a candidate
C8_Witness ==
    /\ \E p \in TestedInside :
          /\ ~isEdgeCandidate(zc.imgBLI, zc.imgISEF, p[1], p[2]).value
          /\ \E k \in 1 .. 4 : Transition(k, p) /\ SignCondition(k, p)
    /\ \E p \in Tested :
          isEdgeCandidate(zc.imgBLI, zc.imgISEF, p[1], p[2]).value

====
